---- MODULE Spec2Model ----
(***************************************************************************)
(* Track reconciler of jam_session_processor: merge_tracks, split_track    *)
(* and _renumber_tracks (track_ops.py) over the tracks table (db.py), the  *)
(* storage backends (storage.py) and the artifact names (output.py).       *)
(*                                                                         *)
(* Time is counted in ticks, TicksPerSec ticks to the second, so that      *)
(* fractional split offsets and the truncation int(sec) of                 *)
(* _format_timestamp are both represented.                                 *)
(*                                                                         *)
(* Every database statement in db.py commits on its own, and every storage *)
(* call is a separate filesystem / network call, so each of them is one    *)
(* step of the calling thread.  The endpoints are plain `def` handlers run *)
(* on a thread pool over one shared connection (check_same_thread=False),  *)
(* without any lock.                                                       *)
(*                                                                         *)
(* Fault model: the encoder (ffmpeg) and every call to the remote bucket   *)
(* may fail; local filesystem calls and single SQL statements succeed.     *)
(***************************************************************************)
EXTENDS Integers, Sequences, FiniteSets, TLC

\* ---- bounds of the model ----
\* resolution of time: ticks per second
TicksPerSec == 2
\* number of merge / split calls in one behaviour
MaxOps == 2
\* number of encoder / bucket failures in one behaviour
MaxFaults == 1

\* request threads of the server's pool
Procs == {"A", "B"}
\* songs.id values used as tags; a NULL song_id is NoTag
NoTag == 0
\* an id no row has (AUTOINCREMENT ids start at 1)
NoId == 0

VARIABLES tracks, nextId, disk, bucket, isRemote, op, budget, faults,
          splitter, fingerprint, job, upload

\* the state track_ops.py works on
opsVars == <<tracks, nextId, disk, bucket, isRemote, op, budget, faults>>

vars == <<tracks, nextId, disk, bucket, isRemote, op, budget, faults,
          splitter, fingerprint, job, upload>>

\* ---- output.py ----

\* mutant of FormatTimestamp: only the minutes are printed
FormatTimestampMinutes(t) == t \div (60 * TicksPerSec)

\* _format_timestamp: int(sec), then divmod by 60 printed as MMmSSs (injective
\* on the truncated value).
FormatTimestamp(t) == t \div TicksPerSec

\* len(str(total_tracks))
Width(total) == IF total < 10 THEN 1 ELSE IF total < 100 THEN 2 ELSE 3

\* generate_output_name joined with output_dir (one directory per session);
\* sfx is the fingerprint / song-name suffix, empty for track_ops' calls.
GenerateOutputName(sess, num, total, s, e, sfx) ==
    <<sess, num, Width(total), FormatTimestamp(s), FormatTimestamp(e), sfx>>

\* ---- file stores: sets of [path, data] with at most one entry per path ----
Has(F, p) == \E f \in F : f.path = p
Del(F, p) == {f \in F : f.path # p}
Put(F, p, d) == Del(F, p) \cup {[path |-> p, data |-> d]}
DataOf(F, p) == (CHOOSE f \in F : f.path = p).data
Move(F, a, b) == Put(Del(F, a), b, DataOf(F, a))

\* ---- db.py ----
Track(id, sess, num, s, e, tag, notes, path) ==
    [id |-> id, sess |-> sess, num |-> num, s |-> s, e |-> e,
     tag |-> tag, notes |-> notes, path |-> path]

\* Track.duration_sec, stored by create_track as end_sec - start_sec
Duration(t) == t.e - t.s

GetTrack(T, id) == {t \in T : t.id = id}

TracksOf(T, sess) == {t \in T : t.sess = sess}

DeleteTrack(T, id) == {t \in T : t.id # id}

CreateTrack(T, id, sess, num, s, e, path) ==
    T \cup {Track(id, sess, num, s, e, NoTag, "", path)}

\* cur.lastrowid after the INSERT of create_track, read once the statement has
\* run: sqlite3_last_insert_rowid of the one connection all threads share
\* (api.get_db), the id of the row inserted last on it
LastInsertRowid == nextId - 1

SetTag(T, id, tag) ==
    {IF t.id = id THEN [t EXCEPT !.tag = tag] ELSE t : t \in T}

UpdateTrackNotes(T, id, notes) ==
    {IF t.id = id THEN [t EXCEPT !.notes = notes] ELSE t : t \in T}

\* db.update_track(id, track_number=num, audio_path=path): one UPDATE statement
UpdateTrack(T, id, num, path) ==
    {IF t.id = id THEN [t EXCEPT !.num = num, !.path = path] ELSE t : t \in T}

\* ---- the tracks of a session in the order _renumber_tracks walks them ----
\* get_tracks_for_session orders by track_number (rows with equal numbers come
\* in an order SQL leaves open); list.sort(key=start_sec) is stable.
Before(u, t) == u.s < t.s \/ (u.s = t.s /\ u.num < t.num)

Minimal(S) == {t \in S : \A u \in S : ~Before(u, t)}

RECURSIVE SortedOrders(_)
SortedOrders(S) ==
    IF S = {} THEN {<<>>}
    ELSE UNION {{<<t>> \o r : r \in SortedOrders(S \ {t})} : t \in Minimal(S)}

\* mutant of NextMismatch: the loop finds no track to renumber
NextMismatchNone(l, i) == Len(l) + 1

\* first index j >= i of the loop whose track needs a new number, or Len + 1
RECURSIVE NextMismatch(_, _)
NextMismatch(l, i) ==
    IF i > Len(l) THEN i
    ELSE IF l[i].num # i THEN i
    ELSE NextMismatch(l, i + 1)

\* ---- state of one request thread ----
NoTrack == Track(NoId, 0, 0, 0, 0, NoTag, "", <<>>)

\* what is remembered of the thread's previous request when that was a
\* successful split: its kind, how it ended and the rows before it
NoCall == [kind |-> "none", result |-> "none", pre |-> {}]

LastCall(p) ==
    IF op[p].kind = "split" /\ op[p].result = "ok"
    THEN [kind |-> op[p].kind, result |-> op[p].result, pre |-> op[p].pre]
    ELSE NoCall

Idle ==
    [pc |-> "done", at |-> "none", kind |-> "none", result |-> "none",
     a1 |-> NoId, a2 |-> NoId,
     t1 |-> NoTrack, t2 |-> NoTrack, total |-> 0, path1 |-> <<>>, path2 |-> <<>>,
     newId |-> NoId, rlist |-> <<>>, ri |-> 0,
     pre |-> {}, preStore |-> {}, exported |-> <<>>, last |-> NoCall]

\* the artifacts as the rest of the system resolves them (storage.exists / url)
Stored == IF isRemote THEN bucket ELSE disk

\* ---- the analysis modules at rest ----
\* no detect_songs call and no fingerprint / matching call in progress
SplitterIdle == [pc |-> "idle"]
FingerprintIdle == [pc |-> "idle"]

\* ---- the upload pipeline at rest ----
\* no upload job and no run of _process_upload
NoJob == [status |-> "none"]
UploadIdle == [pc |-> "idle"]

\* ---- initial sessions ----
\* The tracks of the edited session by track number: range in ticks, tag, notes
\* and the suffix of the artifact name.  The first three are as the upload
\* pipeline leaves a session: whole seconds, names carrying a fingerprint
\* (export_segments); detect_songs pads every run by 2 s on each side, so two
\* runs less than 4 s apart come out overlapping.  The last is the overlapping
\* session after edits (split 1, merge the halves again, split 2): names
\* without suffix, a split point off the whole second.
Seg(lo, hi, tag, notes, sfx) ==
    [s |-> lo, e |-> hi, tag |-> tag, notes |-> notes, sfx |-> sfx]

Layouts ==
    { << Seg(0, 3 * TicksPerSec, 1, "a", "fp"),
         Seg(3 * TicksPerSec, 6 * TicksPerSec, 2, "b", "fp"),
         Seg(6 * TicksPerSec, 9 * TicksPerSec, NoTag, "", "fp") >>,
      << Seg(0, 5 * TicksPerSec, NoTag, "", "fp"),
         Seg(3 * TicksPerSec, 8 * TicksPerSec, 1, "b", "fp") >>,
      << Seg(0, 3 * TicksPerSec, 1, "a", "fp"),
         Seg(5 * TicksPerSec, 8 * TicksPerSec, NoTag, "b", "fp") >>,
      << Seg(0, 5 * TicksPerSec, NoTag, "a", ""),
         Seg(3 * TicksPerSec, 5 * TicksPerSec + 1, 2, "", ""),
         Seg(5 * TicksPerSec + 1, 8 * TicksPerSec, NoTag, "", "") >> }

PipelineTracks(sess, firstId, layout) ==
    { Track(firstId + i - 1, sess, i, layout[i].s, layout[i].e,
            layout[i].tag, layout[i].notes,
            GenerateOutputName(sess, i, Len(layout), layout[i].s, layout[i].e,
                               layout[i].sfx))
      : i \in 1..Len(layout) }

ArtifactsOf(T) == {[path |-> t.path, data |-> <<t.sess, t.s, t.e>>] : t \in T}

InitWith(layouts, remotes) ==
    \E layout \in layouts, remote \in remotes :
        LET T == PipelineTracks(1, 1, layout)
                 \cup PipelineTracks(2, Len(layout) + 1,
                                     << Seg(0, 2 * TicksPerSec, NoTag, "", "fp") >>)
        IN  /\ tracks = T
            /\ nextId = Len(layout) + 2
            /\ isRemote = remote
            /\ disk = IF remote THEN {} ELSE ArtifactsOf(T)
            /\ bucket = IF remote THEN ArtifactsOf(T) ELSE {}
            /\ op = [p \in Procs |-> Idle]
            /\ budget = MaxOps
            /\ faults = 0
            /\ splitter = SplitterIdle
            /\ fingerprint = FingerprintIdle
            /\ job = NoJob
            /\ upload = UploadIdle

Init == InitWith(Layouts, BOOLEAN)

\* ---- helpers of the steps ----
\* the call returns or raises; `at` keeps the statement it ended at
Finish(p, res) ==
    op' = [op EXCEPT ![p].pc = "done", ![p].at = op[p].pc, ![p].result = res,
                     ![p].rlist = <<>>, ![p].ri = 0]

Goto(p, pc) == op' = [op EXCEPT ![p].pc = pc]

\* `if song_id:` ... `if notes:` ... then the next statement
MetaPc(t, tagpc, notespc, next) ==
    IF t.tag # NoTag THEN tagpc ELSE IF t.notes # "" THEN notespc ELSE next

NotesPc(t, notespc, next) == IF t.notes # "" THEN notespc ELSE next

\* storage.delete: the bucket call's failure is logged and swallowed, the local
\* copy is unlinked in any case
StorageDelete(path, bucketOk) ==
    /\ bucketOk \/ (isRemote /\ faults < MaxFaults)
    /\ disk' = Del(disk, path)
    /\ bucket' = IF isRemote /\ bucketOk THEN Del(bucket, path) ELSE bucket
    /\ faults' = IF bucketOk THEN faults ELSE faults + 1

\* export_segment: ffmpeg -y writes the range of the source to output_path
ExportSegment(sess, path, lo, hi) == disk' = Put(disk, path, <<sess, lo, hi>>)

\* cfg.resolve_path(session.source_file): the recording the session was cut from
SourceFile(sess) == <<"source", sess>>

\* mutant of ExportInput: the export reads the artifact of the track edited
ExportInputArtifact(t) == t.path

\* the first argument of export_segment in merge_tracks and split_track
ExportInput(t) == SourceFile(t.sess)

\* what one call of export_segment read and wrote
ExportRecord(t, path, lo, hi) ==
    [from |-> ExportInput(t), sess |-> t.sess, path |-> path, lo |-> lo, hi |-> hi]

\* A thread takes a request when it is free; the model follows a session for
\* MaxOps requests and no further than the first request that ends in an error.
CanCall(p) ==
    /\ op[p].pc = "done"
    /\ budget > 0
    /\ \A q \in Procs : op[q].result \in {"none", "running", "ok"}

\* ---- merge_tracks ----
TheTrack(T, id) == CHOOSE t \in T : t.id = id

\* mutant of MergeError: the adjacency check is left out
MergeErrorNoAdjacency(T, id1, id2) ==
    IF GetTrack(T, id1) = {} \/ GetTrack(T, id2) = {} THEN "Track not found"
    ELSE IF TheTrack(T, id1).sess # TheTrack(T, id2).sess
         THEN "Tracks must belong to the same session"
         ELSE ""

\* the checks of merge_tracks, in their order; "" when all pass
MergeError(T, id1, id2) ==
    IF GetTrack(T, id1) = {} \/ GetTrack(T, id2) = {} THEN "Track not found"
    ELSE LET a == TheTrack(T, id1)
             b == TheTrack(T, id2)
             lo == IF a.num > b.num THEN b ELSE a
             hi == IF a.num > b.num THEN a ELSE b
         IN  IF a.sess # b.sess THEN "Tracks must belong to the same session"
             ELSE IF hi.num - lo.num # 1 THEN "Tracks must be adjacent"
             ELSE ""

\* mutant of MergeFirst: the track named first is taken as the earlier one
MergeFirstAsGiven(a, b) == a

\* t1, t2 after `if t1.track_number > t2.track_number: t1, t2 = t2, t1`
MergeFirst(a, b) == IF a.num > b.num THEN b ELSE a
MergeSecond(a, b) == IF a.num > b.num THEN a ELSE b

\* max(total_tracks, 1) with total_tracks = len(tracks of the session) - 1
MergeTotal(T, sess) ==
    LET n == Cardinality(TracksOf(T, sess)) - 1 IN IF n > 1 THEN n ELSE 1

MergeCall(p, id1, id2) ==
    /\ CanCall(p)
    /\ budget' = budget - 1
    /\ LET err == MergeError(tracks, id1, id2)
           base == [Idle EXCEPT !.kind = "merge", !.a1 = id1, !.a2 = id2,
                                !.pre = tracks, !.preStore = Stored,
                                !.last = LastCall(p)]
       IN  IF err # ""
           THEN op' = [op EXCEPT ![p] = [base EXCEPT !.result = "ValueError"]]
           ELSE LET a == TheTrack(tracks, id1)
                    b == TheTrack(tracks, id2)
                IN  op' = [op EXCEPT ![p] =
                             [base EXCEPT !.pc = IF isRemote THEN "m_get" ELSE "m_export",
                                          !.result = "running",
                                          !.t1 = MergeFirst(a, b),
                                          !.t2 = MergeSecond(a, b)]]
    /\ UNCHANGED <<tracks, nextId, disk, bucket, isRemote, faults, splitter, fingerprint, job, upload>>

\* storage.get(session.source_file, source_file), remote storage only
MGet(p) ==
    /\ op[p].pc = "m_get"
    /\ Goto(p, "m_export")
    /\ UNCHANGED <<tracks, nextId, disk, bucket, isRemote, budget, faults, splitter, fingerprint, job, upload>>

\* mutant of MergeRange: the range is not widened to the later track's end
MergeRangeFirstOnly(t1, t2) == <<t1.s, t1.e>>

\* new_start = t1.start_sec; new_end = t2.end_sec
MergeRange(t1, t2) == <<t1.s, t2.e>>

MExport(p) ==
    /\ op[p].pc = "m_export"
    /\ LET t1 == op[p].t1
           t2 == op[p].t2
           rng == MergeRange(t1, t2)
           name == GenerateOutputName(t1.sess, t1.num, MergeTotal(tracks, t1.sess),
                                      rng[1], rng[2], "")
       IN  /\ ExportSegment(t1.sess, name, rng[1], rng[2])
           /\ op' = [op EXCEPT ![p].pc = "m_del1", ![p].path1 = name,
                        ![p].exported = Append(@, ExportRecord(t1, name, rng[1], rng[2]))]
    /\ UNCHANGED <<tracks, nextId, bucket, isRemote, budget, faults, splitter, fingerprint, job, upload>>

MDel1(p) ==
    /\ op[p].pc = "m_del1"
    /\ \E ok \in BOOLEAN : StorageDelete(op[p].t1.path, ok)
    /\ Goto(p, "m_del2")
    /\ UNCHANGED <<tracks, nextId, isRemote, budget, splitter, fingerprint, job, upload>>

MDel2(p) ==
    /\ op[p].pc = "m_del2"
    /\ \E ok \in BOOLEAN : StorageDelete(op[p].t2.path, ok)
    /\ Goto(p, "m_delrow1")
    /\ UNCHANGED <<tracks, nextId, isRemote, budget, splitter, fingerprint, job, upload>>

MDelRow1(p) ==
    /\ op[p].pc = "m_delrow1"
    /\ tracks' = DeleteTrack(tracks, op[p].t1.id)
    /\ Goto(p, "m_delrow2")
    /\ UNCHANGED <<nextId, disk, bucket, isRemote, budget, faults, splitter, fingerprint, job, upload>>

MDelRow2(p) ==
    /\ op[p].pc = "m_delrow2"
    /\ tracks' = DeleteTrack(tracks, op[p].t2.id)
    /\ Goto(p, "m_create")
    /\ UNCHANGED <<nextId, disk, bucket, isRemote, budget, faults, splitter, fingerprint, job, upload>>

MCreate(p) ==
    /\ op[p].pc = "m_create"
    /\ tracks' = CreateTrack(tracks, nextId, op[p].t1.sess, op[p].t1.num,
                              MergeRange(op[p].t1, op[p].t2)[1],
                              MergeRange(op[p].t1, op[p].t2)[2], op[p].path1)
    /\ nextId' = nextId + 1
    /\ Goto(p, "m_rowid")
    /\ UNCHANGED <<disk, bucket, isRemote, budget, faults, splitter, fingerprint, job, upload>>

\* new_track_id = cur.lastrowid
MRowId(p) ==
    /\ op[p].pc = "m_rowid"
    /\ op' = [op EXCEPT ![p].newId = LastInsertRowid,
                        ![p].pc = IF isRemote THEN "m_put"
                                  ELSE MetaPc(op[p].t1, "m_tag", "m_notes", "r_read")]
    /\ UNCHANGED <<tracks, nextId, disk, bucket, isRemote, budget, faults, splitter, fingerprint, job, upload>>

\* storage.put(new_rel_path, new_path): upload_file raises when the local file
\* is gone
MPut(p) ==
    /\ op[p].pc = "m_put"
    /\ IF Has(disk, op[p].path1)
       THEN /\ bucket' = Put(bucket, op[p].path1, DataOf(disk, op[p].path1))
            /\ Goto(p, MetaPc(op[p].t1, "m_tag", "m_notes", "r_read"))
       ELSE /\ bucket' = bucket
            /\ Finish(p, "error")
    /\ UNCHANGED <<tracks, nextId, disk, isRemote, budget, faults, splitter, fingerprint, job, upload>>

\* mutant of MergeKeptTag: the later track's tag is kept
MergeKeptTagOfLater(t1, t2) == t2.tag

\* the metadata the merged track gets back
MergeKeptTag(t1, t2) == t1.tag
MergeKeptNotes(t1, t2) == t1.notes

MTag(p) ==
    /\ op[p].pc = "m_tag"
    /\ tracks' = SetTag(tracks, op[p].newId, MergeKeptTag(op[p].t1, op[p].t2))
    /\ Goto(p, NotesPc(op[p].t1, "m_notes", "r_read"))
    /\ UNCHANGED <<nextId, disk, bucket, isRemote, budget, faults, splitter, fingerprint, job, upload>>

MNotes(p) ==
    /\ op[p].pc = "m_notes"
    /\ tracks' = UpdateTrackNotes(tracks, op[p].newId, MergeKeptNotes(op[p].t1, op[p].t2))
    /\ Goto(p, "r_read")
    /\ UNCHANGED <<nextId, disk, bucket, isRemote, budget, faults, splitter, fingerprint, job, upload>>

\* ---- split_track ----
\* mutant of SplitError: the bounds are compared with < and > instead of <= and >=
SplitErrorInclusive(T, id, off) ==
    IF GetTrack(T, id) = {} THEN "Track not found"
    ELSE IF off < TicksPerSec \/ off > Duration(TheTrack(T, id)) - TicksPerSec
         THEN "Split point must be more than 1 second from either edge"
         ELSE ""

\* the checks of split_track; off is split_at_sec in ticks
SplitError(T, id, off) ==
    IF GetTrack(T, id) = {} THEN "Track not found"
    ELSE IF off <= TicksPerSec \/ off >= Duration(TheTrack(T, id)) - TicksPerSec
         THEN "Split point must be more than 1 second from either edge"
         ELSE ""

\* absolute_split = track.start_sec + split_at_sec
AbsoluteSplit(t, off) == t.s + off

SplitCall(p, id, off) ==
    /\ CanCall(p)
    /\ budget' = budget - 1
    /\ LET err == SplitError(tracks, id, off)
           base == [Idle EXCEPT !.kind = "split", !.a1 = id, !.a2 = off,
                                !.pre = tracks, !.preStore = Stored,
                                !.last = LastCall(p)]
       IN  IF err # ""
           THEN op' = [op EXCEPT ![p] = [base EXCEPT !.result = "ValueError"]]
           ELSE op' = [op EXCEPT ![p] =
                         [base EXCEPT !.pc = IF isRemote THEN "s_get" ELSE "s_export1",
                                      !.result = "running",
                                      !.t1 = TheTrack(tracks, id)]]
    /\ UNCHANGED <<tracks, nextId, disk, bucket, isRemote, faults, splitter, fingerprint, job, upload>>

SGet(p) ==
    /\ op[p].pc = "s_get"
    /\ Goto(p, "s_export1")
    /\ UNCHANGED <<tracks, nextId, disk, bucket, isRemote, budget, faults, splitter, fingerprint, job, upload>>

\* total_tracks = len(tracks of the session) + 1, read once before both exports
SplitTotal(T, sess) == Cardinality(TracksOf(T, sess)) + 1

FirstHalf(t, off) == <<t.s, AbsoluteSplit(t, off)>>
\* mutant of SecondHalf: the second half is cut from the start of the track
SecondHalfFromStart(t, off) == <<t.s, t.e>>

SecondHalf(t, off) == <<AbsoluteSplit(t, off), t.e>>

SExport1(p) ==
    /\ op[p].pc = "s_export1"
    /\ LET t == op[p].t1
           total == SplitTotal(tracks, t.sess)
           rng == FirstHalf(t, op[p].a2)
           name == GenerateOutputName(t.sess, t.num, total, rng[1], rng[2], "")
       IN  /\ ExportSegment(t.sess, name, rng[1], rng[2])
           /\ op' = [op EXCEPT ![p].pc = "s_export2", ![p].path1 = name,
                        ![p].total = total,
                        ![p].exported = Append(@, ExportRecord(t, name, rng[1], rng[2]))]
    /\ UNCHANGED <<tracks, nextId, bucket, isRemote, budget, faults, splitter, fingerprint, job, upload>>

SExport2(p) ==
    /\ op[p].pc = "s_export2"
    /\ LET t == op[p].t1
           rng == SecondHalf(t, op[p].a2)
           name == GenerateOutputName(t.sess, t.num + 1, op[p].total, rng[1], rng[2], "")
       IN  /\ ExportSegment(t.sess, name, rng[1], rng[2])
           /\ op' = [op EXCEPT ![p].pc = "s_del", ![p].path2 = name,
                        ![p].exported = Append(@, ExportRecord(t, name, rng[1], rng[2]))]
    /\ UNCHANGED <<tracks, nextId, bucket, isRemote, budget, faults, splitter, fingerprint, job, upload>>

SDel(p) ==
    /\ op[p].pc = "s_del"
    /\ \E ok \in BOOLEAN : StorageDelete(op[p].t1.path, ok)
    /\ Goto(p, "s_delrow")
    /\ UNCHANGED <<tracks, nextId, isRemote, budget, splitter, fingerprint, job, upload>>

SDelRow(p) ==
    /\ op[p].pc = "s_delrow"
    /\ tracks' = DeleteTrack(tracks, op[p].t1.id)
    /\ Goto(p, "s_create1")
    /\ UNCHANGED <<nextId, disk, bucket, isRemote, budget, faults, splitter, fingerprint, job, upload>>

SCreate1(p) ==
    /\ op[p].pc = "s_create1"
    /\ LET t == op[p].t1
           rng == FirstHalf(t, op[p].a2)
       IN  tracks' = CreateTrack(tracks, nextId, t.sess, t.num, rng[1], rng[2], op[p].path1)
    /\ nextId' = nextId + 1
    /\ Goto(p, "s_rowid")
    /\ UNCHANGED <<disk, bucket, isRemote, budget, faults, splitter, fingerprint, job, upload>>

\* first_id = cur.lastrowid
SRowId(p) ==
    /\ op[p].pc = "s_rowid"
    /\ op' = [op EXCEPT ![p].newId = LastInsertRowid,
                        ![p].pc = IF isRemote THEN "s_put1"
                                  ELSE MetaPc(op[p].t1, "s_tag", "s_notes", "s_create2")]
    /\ UNCHANGED <<tracks, nextId, disk, bucket, isRemote, budget, faults, splitter, fingerprint, job, upload>>

SPut1(p) ==
    /\ op[p].pc = "s_put1"
    /\ IF Has(disk, op[p].path1)
       THEN /\ bucket' = Put(bucket, op[p].path1, DataOf(disk, op[p].path1))
            /\ Goto(p, MetaPc(op[p].t1, "s_tag", "s_notes", "s_create2"))
       ELSE /\ bucket' = bucket
            /\ Finish(p, "error")
    /\ UNCHANGED <<tracks, nextId, disk, isRemote, budget, faults, splitter, fingerprint, job, upload>>

\* mutant of SplitKeptTag: the first half is left untagged
SplitKeptTagNone(t) == NoTag

\* the metadata the first half gets back (song_id = track.song_id, notes = track.notes)
SplitKeptTag(t) == t.tag
SplitKeptNotes(t) == t.notes

STag(p) ==
    /\ op[p].pc = "s_tag"
    /\ tracks' = SetTag(tracks, op[p].newId, SplitKeptTag(op[p].t1))
    /\ Goto(p, NotesPc(op[p].t1, "s_notes", "s_create2"))
    /\ UNCHANGED <<nextId, disk, bucket, isRemote, budget, faults, splitter, fingerprint, job, upload>>

SNotes(p) ==
    /\ op[p].pc = "s_notes"
    /\ tracks' = UpdateTrackNotes(tracks, op[p].newId, SplitKeptNotes(op[p].t1))
    /\ Goto(p, "s_create2")
    /\ UNCHANGED <<nextId, disk, bucket, isRemote, budget, faults, splitter, fingerprint, job, upload>>

SCreate2(p) ==
    /\ op[p].pc = "s_create2"
    /\ LET t == op[p].t1
           rng == SecondHalf(t, op[p].a2)
       IN  tracks' = CreateTrack(tracks, nextId, t.sess, t.num + 1, rng[1], rng[2],
                                 op[p].path2)
    /\ nextId' = nextId + 1
    /\ Goto(p, IF isRemote THEN "s_put2" ELSE "r_read")
    /\ UNCHANGED <<disk, bucket, isRemote, budget, faults, splitter, fingerprint, job, upload>>

SPut2(p) ==
    /\ op[p].pc = "s_put2"
    /\ IF Has(disk, op[p].path2)
       THEN /\ bucket' = Put(bucket, op[p].path2, DataOf(disk, op[p].path2))
            /\ Goto(p, "r_read")
       ELSE /\ bucket' = bucket
            /\ Finish(p, "error")
    /\ UNCHANGED <<tracks, nextId, disk, isRemote, budget, faults, splitter, fingerprint, job, upload>>

\* ---- _renumber_tracks ----
\* the canonical name of the track at position i of the sorted list
RenumberName(l, i) ==
    GenerateOutputName(l[i].sess, i, Len(l), l[i].s, l[i].e, "")

\* tracks = db.get_tracks_for_session(session_id); tracks.sort(...); the loop
\* then works on these row copies
RRead(p) ==
    /\ op[p].pc = "r_read"
    /\ \E l \in SortedOrders(TracksOf(tracks, op[p].t1.sess)) :
          LET j == NextMismatch(l, 1)
          IN  IF j > Len(l)
              THEN Finish(p, "ok")
              ELSE op' = [op EXCEPT ![p].pc = "r_rename", ![p].rlist = l, ![p].ri = j]
    /\ UNCHANGED <<tracks, nextId, disk, bucket, isRemote, budget, faults, splitter, fingerprint, job, upload>>

\* LocalStorage.rename / the local half of R2Storage.rename
LocalRename(D, old, new) ==
    IF Has(D, old) /\ old # new THEN Move(D, old, new) ELSE D

\* R2Storage.rename: copy_object then delete_object
BucketRename(B, old, new) == Del(Put(B, new, DataOf(B, old)), old)

\* storage.rename(track.audio_path, new_rel); copy_object raises on a missing key
RRename(p) ==
    /\ op[p].pc = "r_rename"
    /\ LET old == op[p].rlist[op[p].ri].path
           new == RenumberName(op[p].rlist, op[p].ri)
       IN  IF isRemote /\ ~Has(bucket, old)
           THEN /\ Finish(p, "error")
                /\ UNCHANGED <<disk, bucket>>
           ELSE /\ bucket' = IF isRemote THEN BucketRename(bucket, old, new) ELSE bucket
                /\ disk' = LocalRename(disk, old, new)
                /\ Goto(p, "r_update")
    /\ UNCHANGED <<tracks, nextId, isRemote, budget, faults, splitter, fingerprint, job, upload>>

\* db.update_track(track.id, track_number=expected_num, audio_path=new_rel), then
\* the rest of the loop and the final get_tracks_for_session
RUpdate(p) ==
    /\ op[p].pc = "r_update"
    /\ tracks' = UpdateTrack(tracks, op[p].rlist[op[p].ri].id, op[p].ri,
                             RenumberName(op[p].rlist, op[p].ri))
    /\ LET j == NextMismatch(op[p].rlist, op[p].ri + 1)
       IN  IF j > Len(op[p].rlist)
           THEN Finish(p, "ok")
           ELSE op' = [op EXCEPT ![p].pc = "r_rename", ![p].ri = j]
    /\ UNCHANGED <<nextId, disk, bucket, isRemote, budget, faults, splitter, fingerprint, job, upload>>

\* ---- failures ----
\* the path the export at the thread's position writes
ExportTarget(p) ==
    LET t == op[p].t1
    IN  IF op[p].pc = "m_export"
        THEN GenerateOutputName(t.sess, t.num, MergeTotal(tracks, t.sess),
                                MergeRange(t, op[p].t2)[1], MergeRange(t, op[p].t2)[2], "")
        ELSE IF op[p].pc = "s_export1"
        THEN GenerateOutputName(t.sess, t.num, SplitTotal(tracks, t.sess),
                                FirstHalf(t, op[p].a2)[1], FirstHalf(t, op[p].a2)[2], "")
        ELSE GenerateOutputName(t.sess, t.num + 1, op[p].total,
                                SecondHalf(t, op[p].a2)[1], SecondHalf(t, op[p].a2)[2], "")

\* subprocess.run(check=True) raises CalledProcessError; ffmpeg -y may by then
\* have left a truncated output file, or none
ExportFail(p) ==
    /\ faults < MaxFaults
    /\ faults' = faults + 1
    /\ op[p].pc \in {"m_export", "s_export1", "s_export2"}
    /\ \E wrote \in BOOLEAN :
          disk' = IF wrote THEN Put(disk, ExportTarget(p), <<"partial">>) ELSE disk
    /\ Finish(p, "error")
    /\ UNCHANGED <<tracks, nextId, bucket, isRemote, budget, splitter, fingerprint, job, upload>>

\* a call to the bucket raises (download_file, upload_file, copy_object)
BucketFail(p) ==
    /\ faults < MaxFaults
    /\ faults' = faults + 1
    /\ isRemote
    /\ op[p].pc \in {"m_get", "s_get", "m_put", "s_put1", "s_put2", "r_rename"}
    /\ Finish(p, "error")
    /\ UNCHANGED <<tracks, nextId, disk, bucket, isRemote, budget, splitter, fingerprint, job, upload>>

\* ---- requests ----
Ids == {t.id : t \in tracks} \cup {NoId}

RECURSIVE MaxDuration(_)
MaxDuration(T) ==
    IF T = {} THEN 0
    ELSE LET t == CHOOSE x \in T : TRUE
             m == MaxDuration(T \ {t})
         IN  IF Duration(t) > m THEN Duration(t) ELSE m

Offsets == 1..MaxDuration(tracks)

Step(p) ==
    \/ MGet(p) \/ MExport(p) \/ MDel1(p) \/ MDel2(p) \/ MDelRow1(p) \/ MDelRow2(p)
    \/ MCreate(p) \/ MRowId(p) \/ MPut(p) \/ MTag(p) \/ MNotes(p)
    \/ SGet(p) \/ SExport1(p) \/ SExport2(p) \/ SDel(p) \/ SDelRow(p)
    \/ SCreate1(p) \/ SRowId(p) \/ SPut1(p) \/ STag(p) \/ SNotes(p) \/ SCreate2(p) \/ SPut2(p)
    \/ RRead(p) \/ RRename(p) \/ RUpdate(p)
    \/ ExportFail(p) \/ BucketFail(p)

Call(p) ==
    \/ \E id1 \in Ids, id2 \in Ids : MergeCall(p, id1, id2)
    \/ \E id \in Ids, off \in Offsets : SplitCall(p, id, off)

\* one request at a time
Next == Call("A") \/ Step("A")

Spec == Init /\ [][Next]_vars

\* requests served concurrently by the pool's threads
NextConc == \E p \in Procs : Call(p) \/ Step(p)

\* the concurrent behaviours are followed from the two-track session with a gap,
\* stored in the bucket
InitConc == InitWith({l \in Layouts : Len(l) = 2 /\ l[1].e < l[2].s}, {TRUE})

SpecConc == InitConc /\ [][NextConc]_vars

\* ---- requests on two sessions ----
\* two sessions that can both be edited, stored in the bucket: the two-track
\* session with a gap, and a second one of two tracks back to back
InitTwo ==
    LET layout == CHOOSE l \in Layouts : Len(l) = 2 /\ l[1].e < l[2].s
        T == PipelineTracks(1, 1, layout)
             \cup PipelineTracks(2, Len(layout) + 1,
                                 << Seg(0, 3 * TicksPerSec, 2, "c", "fp"),
                                    Seg(3 * TicksPerSec, 6 * TicksPerSec, NoTag, "", "fp") >>)
    IN  /\ tracks = T
        /\ nextId = 2 * Len(layout) + 1
        /\ isRemote = TRUE
        /\ disk = {}
        /\ bucket = ArtifactsOf(T)
        /\ op = [p \in Procs |-> Idle]
        /\ budget = MaxOps
        /\ faults = 0
        /\ splitter = SplitterIdle
        /\ fingerprint = FingerprintIdle
        /\ job = NoJob
        /\ upload = UploadIdle

\* the session each thread's requests are about
SessionOf(p) == IF p = "A" THEN 1 ELSE 2

IdsOf(sess) == {t.id : t \in TracksOf(tracks, sess)}

CallOn(p, sess) ==
    \/ \E id1 \in IdsOf(sess), id2 \in IdsOf(sess) : MergeCall(p, id1, id2)
    \/ \E id \in IdsOf(sess), off \in Offsets : SplitCall(p, id, off)

NextTwo == \E p \in Procs : CallOn(p, SessionOf(p)) \/ Step(p)

SpecTwo == InitTwo /\ [][NextTwo]_vars

\* ======================= splitter.py =======================
\* ---- bounds of the analysis model ----
\* longest recording, in complete windows, of which every loudness profile is tried
MaxWindows == 4
\* largest small min_song_duration_sec tried (next to the default)
MaxMinDuration == 2

\* ---- constants of splitter.py ----
DEFAULT_ENERGY_THRESHOLD_DB == -30
DEFAULT_MIN_SONG_DURATION_SEC == 120
WINDOW_SEC == 1
SMOOTHING_WINDOW_SEC == 15
\* rms_db of a window whose mean square is 0
SILENT_DB == -100
\* padding_sec of detect_songs
PADDING_SEC == 2

Max2(a, b) == IF a > b THEN a ELSE b
Min2(a, b) == IF a < b THEN a ELSE b

\* loudness of a window in dB: digital silence, just under the default
\* threshold, loud
Levels == {SILENT_DB, DEFAULT_ENERGY_THRESHOLD_DB - 1, -20}

\* a decoded recording: the loudness of its complete 1-second windows and
\* whether samples short of a window follow them
Recording(levels, partial) == [levels |-> levels, partial |-> partial]

RECURSIVE SeqsUpTo(_, _)
SeqsUpTo(S, n) ==
    IF n = 0 THEN {<<>>}
    ELSE LET R == SeqsUpTo(S, n - 1)
         IN  R \cup {Append(r, x) : r \in {q \in R : Len(q) = n - 1}, x \in S}

Repeat(x, n) == [i \in 1..n |-> x]

\* recordings longer than the smoothing window: two passages around a lull
LongProfiles ==
    { Repeat(hi, a) \o Repeat(lo, g) \o Repeat(hi, b) :
        a \in 1..MaxWindows, b \in 1..MaxWindows,
        g \in (SMOOTHING_WINDOW_SEC - 1)..(SMOOTHING_WINDOW_SEC + 1),
        hi \in Levels, lo \in Levels }

Recordings ==
    { Recording(l, partial) :
        l \in SeqsUpTo(Levels, MaxWindows) \cup LongProfiles, partial \in BOOLEAN }

Thresholds == {DEFAULT_ENERGY_THRESHOLD_DB, SILENT_DB, -20}

MinDurations == (0..MaxMinDuration) \cup {DEFAULT_MIN_SONG_DURATION_SEC}

\* compute_rms_profile: one value per complete window, the rest is dropped
ComputeRmsProfile(rec) == rec.levels

RECURSIVE SumRange(_, _, _)
\* sum(values[a:b]) with 0-based, half-open a, b
SumRange(values, a, b) ==
    IF a >= b THEN 0 ELSE values[a + 1] + SumRange(values, a + 1, b)

\* smooth_profile: the rolling average at each index, kept as <<sum, count>>
SmoothProfile(values, window) ==
    IF Len(values) <= window
    THEN [i \in 1..Len(values) |-> <<values[i], 1>>]
    ELSE LET half == window \div 2
         IN  [i \in 1..Len(values) |->
                LET start == Max2(0, (i - 1) - half)
                    end == Min2(Len(values), (i - 1) + half + 1)
                IN  <<SumRange(values, start, end), end - start>>]

\* mutant of AboveThreshold: a window at the threshold counts as quiet
AboveThresholdStrict(avg, threshold) == avg[1] > threshold * avg[2]

\* db >= energy_threshold_db for the average sum / count
AboveThreshold(avg, threshold) == avg[1] >= threshold * avg[2]

RECURSIVE ScanRuns(_, _, _, _, _, _)
\* the loop over enumerate(smoothed); i is the 1-based position, runs are
\* 0-based half-open (song_start, i)
ScanRuns(smoothed, threshold, i, inSong, songStart, raw) ==
    IF i > Len(smoothed)
    THEN IF inSong THEN Append(raw, <<songStart, Len(smoothed)>>) ELSE raw
    ELSE IF AboveThreshold(smoothed[i], threshold)
         THEN ScanRuns(smoothed, threshold, i + 1, TRUE,
                       IF inSong THEN songStart ELSE i - 1, raw)
         ELSE ScanRuns(smoothed, threshold, i + 1, FALSE, songStart,
                       IF inSong THEN Append(raw, <<songStart, i - 1>>) ELSE raw)

RawSegments(smoothed, threshold) == ScanRuns(smoothed, threshold, 1, FALSE, 0, <<>>)

\* mutant of PadSegment: the padding is not clamped to the recording
PadSegmentUnclamped(startIdx, endIdx, total) ==
    <<startIdx * WINDOW_SEC - PADDING_SEC, endIdx * WINDOW_SEC + PADDING_SEC>>

\* start_sec = max(0.0, ...), end_sec = min(float(total_duration), ...)
PadSegment(startIdx, endIdx, total) ==
    <<Max2(0, startIdx * WINDOW_SEC - PADDING_SEC),
      Min2(total, endIdx * WINDOW_SEC + PADDING_SEC)>>

RECURSIVE KeepAndPad(_, _, _, _)
\* the loop over raw_segments from position i on
KeepAndPad(raw, i, minDuration, total) ==
    IF i > Len(raw) THEN <<>>
    ELSE LET duration == (raw[i][2] - raw[i][1]) * WINDOW_SEC
             rest == KeepAndPad(raw, i + 1, minDuration, total)
         IN  IF duration >= minDuration
             THEN <<PadSegment(raw[i][1], raw[i][2], total)>> \o rest
             ELSE rest

\* detect_songs: SplitResult(segments, total_duration_sec)
DetectSongs(rec, threshold, minDuration) ==
    LET profile == ComputeRmsProfile(rec)
    IN  IF profile = <<>>
        THEN [segments |-> <<>>, total_duration_sec |-> 0]
        ELSE LET total == Len(profile) * WINDOW_SEC
                 smoothed == SmoothProfile(profile, SMOOTHING_WINDOW_SEC)
                 raw == RawSegments(smoothed, threshold)
             IN  [segments |-> KeepAndPad(raw, 1, minDuration, total),
                  total_duration_sec |-> total]

\* no session and no request: the state in which a recording is analysed
NoSessions ==
    /\ tracks = {} /\ nextId = 1 /\ disk = {} /\ bucket = {} /\ isRemote = FALSE
    /\ op = [p \in Procs |-> Idle] /\ budget = 0 /\ faults = 0
    /\ job = NoJob /\ upload = UploadIdle

InitDetect ==
    /\ NoSessions
    /\ fingerprint = FingerprintIdle
    /\ \E rec \in Recordings, threshold \in Thresholds, minDuration \in MinDurations :
          splitter = [pc |-> "called", file |-> rec,
                      energy_threshold_db |-> threshold,
                      min_song_duration_sec |-> minDuration]

\* detect_songs(file, energy_threshold_db, min_song_duration_sec) returns
DetectSongsReturn ==
    /\ splitter.pc = "called"
    /\ splitter' = [pc |-> "returned", file |-> splitter.file,
                    energy_threshold_db |-> splitter.energy_threshold_db,
                    min_song_duration_sec |-> splitter.min_song_duration_sec,
                    result |-> DetectSongs(splitter.file, splitter.energy_threshold_db,
                                           splitter.min_song_duration_sec)]
    /\ UNCHANGED <<opsVars, fingerprint, job, upload>>

NextDetect == DetectSongsReturn

SpecDetect == InitDetect /\ [][NextDetect]_vars

\* ======================= fingerprint.py =======================
\* ---- bounds of the matching model ----
\* longest chromagram, in frames, of which every content is tried
MaxFrames == 2
\* largest reference library tried
MaxRefs == 2
\* n_bins of _summarize_chromagram, the number of rows of every summary
\* (SUMMARY_BINS = 32 in fingerprint.py; the model summarises into fewer bins)
NBins == 4

\* ---- constants of fingerprint.py ----
N_FFT == 8192
\* hop_samples = int(HOP_SECONDS * FINGERPRINT_SAMPLE_RATE)
HOP_SAMPLES == 5512
N_CHROMA == 12
\* _trim_edges trims only chromagrams of at least this many frames ...
TRIM_MIN_FRAMES == 10
\* ... by int(n * EDGE_TRIM_PERCENT) frames on each side, EDGE_TRIM_PERCENT = 1 / TRIM_DIVISOR
TRIM_DIVISOR == 10
\* characters kept of the hexadecimal digest
DIGEST_CHARS == 16

\* ---- chroma rows ----
\* A row of a chromagram is a unit vector or all zero (frames are normalised,
\* a frame without energy stays zero).  A unit row is written as an integer
\* vector of length NORM, so that every product of two rows is a whole number
\* of 1 / (NORM * NORM).
NORM == 5

Row(a, b) == [i \in 1..N_CHROMA |-> IF i = 1 THEN a ELSE IF i = 2 THEN b ELSE 0]

ZeroRow == Row(0, 0)

UnitRows == {Row(NORM, 0), Row(0, NORM), Row(3, 4)}

Rows == UnitRows \cup {ZeroRow}

RECURSIVE DotFrom(_, _, _)
DotFrom(u, v, i) == IF i > N_CHROMA THEN 0 ELSE u[i] * v[i] + DotFrom(u, v, i + 1)

\* u @ v of the normalised rows, in units of 1 / (NORM * NORM)
Dot(u, v) == DotFrom(u, v, 1)

\* ---- decoded audio ----
\* the number of decoded samples and the chroma content of the frames that
\* can be cut from them
Audio(n, content) == [samples |-> n, content |-> content]

\* len(range(0, len(samples) - N_FFT, hop_samples))
FrameCount(n) ==
    IF n - N_FFT <= 0 THEN 0 ELSE ((n - N_FFT - 1) \div HOP_SAMPLES) + 1

\* compute_chromagram_for_file: no frame for fewer than N_FFT samples, else
\* _compute_chromagram
ComputeChromagramForFile(audio) ==
    IF audio.samples < N_FFT THEN <<>>
    ELSE SubSeq(audio.content, 1, FrameCount(audio.samples))

\* _trim_edges
TrimEdges(chromagram) ==
    LET n == Len(chromagram)
    IN  IF n < TRIM_MIN_FRAMES THEN chromagram
        ELSE LET trim == n \div TRIM_DIVISOR
             IN  SubSeq(chromagram, trim + 1, n - trim)

RowAdd(u, v) == [i \in 1..N_CHROMA |-> u[i] + v[i]]

RECURSIVE RowSum(_, _, _)
\* the sum of chromagram[start:end], 0-based half-open
RowSum(chromagram, start, end) ==
    IF start >= end THEN ZeroRow
    ELSE RowAdd(chromagram[start + 1], RowSum(chromagram, start + 1, end))

RowTimes(k, u) == [i \in 1..N_CHROMA |-> k * u[i]]

\* v / norm(v), zero when v is zero: the unit row v is a multiple of (exact for
\* a bin whose frames with energy are equal)
Renormalize(v, count) ==
    IF v = ZeroRow THEN ZeroRow
    ELSE CHOOSE r \in UnitRows : \E k \in 1..count : v = RowTimes(k, r)

\* mutant of BinBounds: bin_size truncated to a whole number of frames
BinBoundsWholeSize(i, n, nBins) == <<(i - 1) * (n \div nBins), i * (n \div nBins)>>

\* start = int(i * bin_size), end = int((i + 1) * bin_size) of the i-th bin
\* (1-based here) with bin_size = n_frames / n_bins
BinBounds(i, n, nBins) == <<((i - 1) * n) \div nBins, (i * n) \div nBins>>

\* _summarize_chromagram
SummarizeChromagram(chromagram, nBins) ==
    IF Len(chromagram) = 0 THEN [i \in 1..nBins |-> ZeroRow]
    ELSE LET padded ==
                 IF Len(chromagram) < nBins
                 THEN chromagram \o [i \in 1..(nBins - Len(chromagram)) |->
                                        chromagram[Len(chromagram)]]
                 ELSE chromagram
             n == Len(padded)
         IN  [i \in 1..nBins |->
                LET start == BinBounds(i, n, nBins)[1]
                    end == BinBounds(i, n, nBins)[2]
                IN  Renormalize(RowSum(padded, start, end), end - start)]

\* ---- distances: <<numerator, denominator>>, float("inf") is <<1, 0>> ----
Inf == <<1, 0>>
Less(x, y) == x[1] * y[2] < y[1] * x[2]
Leq(x, y) == x[1] * y[2] <= y[1] * x[2]

Min3(a, b, c) == Min2(a, Min2(b, c))

\* cost_matrix[i - 1, j - 1] = 1 - a_normed[i] @ b_normed[j]
Cost(a, b, i, j) == NORM * NORM - Dot(a[i], b[j])

RECURSIVE DtwRowFill(_, _, _, _, _)
\* dtw[i, 1..m], extended cell by cell from its first cells (row) and from
\* dtw[i - 1, 1..m] (prev); dtw[0, 0] = 0 and the rest of row 0 and of column
\* 0 is inf
DtwRowFill(a, b, prev, i, row) ==
    IF Len(row) = Len(b) THEN row
    ELSE LET j == Len(row) + 1
             best == IF i = 1 /\ j = 1 THEN 0
                     ELSE IF i = 1 THEN row[j - 1]
                     ELSE IF j = 1 THEN prev[j]
                     ELSE Min3(prev[j], row[j - 1], prev[j - 1])
         IN  DtwRowFill(a, b, prev, i, Append(row, Cost(a, b, i, j) + best))

RECURSIVE DtwTable(_, _, _)
\* the rows dtw[1..n, 1..m], extended row by row from the first rows (table)
DtwTable(a, b, table) ==
    IF Len(table) = Len(a) THEN table
    ELSE LET prev == IF table = <<>> THEN <<>> ELSE table[Len(table)]
         IN  DtwTable(a, b, Append(table, DtwRowFill(a, b, prev, Len(table) + 1, <<>>)))

\* _dtw_distance: dtw[n, m] / (n + m)
DtwDistance(a, b) ==
    IF Len(a) = 0 \/ Len(b) = 0 THEN Inf
    ELSE <<DtwTable(a, b, <<>>)[Len(a)][Len(b)], NORM * NORM * (Len(a) + Len(b))>>

\* ---- match_against_references ----
NoMatch == [matched |-> FALSE]

ReferenceMatch(name, distance) ==
    [matched |-> TRUE, name |-> name, distance |-> distance,
     similarity |-> <<distance[2] - distance[1], distance[2]>>]

RECURSIVE BestOf(_, _, _, _)
\* the loop over reference_db.items() from position i on; best is
\* [found, name, dist] for best_match (None when not found) and best_dist
BestOf(summary, referenceDb, i, best) ==
    IF i > Len(referenceDb) THEN best
    ELSE LET dist == DtwDistance(summary, referenceDb[i].summary)
         IN  BestOf(summary, referenceDb, i + 1,
                    IF Less(dist, best.dist)
                    THEN [found |-> TRUE, name |-> referenceDb[i].name, dist |-> dist]
                    ELSE best)

\* `if best_match and best_dist <= threshold`: None and "" are both false
MatchAgainstReferences(chromagram, referenceDb, threshold) ==
    LET summary == SummarizeChromagram(TrimEdges(chromagram), NBins)
        best == BestOf(summary, referenceDb, 1,
                       [found |-> FALSE, name |-> "", dist |-> Inf])
    IN  IF best.found /\ best.name # "" /\ Leq(best.dist, threshold)
        THEN ReferenceMatch(best.name, best.dist)
        ELSE NoMatch

\* build_reference_db: name -> summary of the trimmed chromagram of the file
ReferenceEntry(name, audio) ==
    [name |-> name,
     summary |-> SummarizeChromagram(TrimEdges(ComputeChromagramForFile(audio)),
                                     NBins)]

\* ---- the inputs ----
\* sample counts that give exactly k frames: the fewest and the most
SampleCounts(k) ==
    IF k = 0 THEN {0, N_FFT - 1, N_FFT}
    ELSE {N_FFT + (k - 1) * HOP_SAMPLES + 1, N_FFT + k * HOP_SAMPLES}

\* chromagrams long enough to be trimmed and still longer than NBins: one
\* chord with a stretch of silence in it
LongContents ==
    { Repeat(r, NBins) \o Repeat(ZeroRow, z)
          \o Repeat(r, TRIM_MIN_FRAMES + k - z) :
        z \in 0..MaxFrames, k \in 0..MaxFrames, r \in Rows }

\* the chromagrams tried as queries
Contents == SeqsUpTo(Rows, MaxFrames) \cup LongContents

\* the decoded files tried: each content with the fewest and the most samples
\* that give its frames
Audios == UNION { {Audio(n, c) : n \in SampleCounts(Len(c))} : c \in Contents }

\* reference recordings: too short to give a frame, or one frame of a chord
RefAudios ==
    {Audio(N_FFT, <<>>)} \cup
    {Audio(N_FFT + 1, <<r>>) : r \in {Row(NORM, 0), Row(3, 4)}}

\* names build_reference_db derives from the file stems; the stem
\* "2023-10-25-" is cleaned to the empty name
RefNames == {"", "a", "b"}

RefEntries == {ReferenceEntry(name, a) : name \in RefNames, a \in RefAudios}

\* a dict in insertion order: no name twice
Libraries ==
    {db \in SeqsUpTo(RefEntries, MaxRefs) :
        \A i \in 1..Len(db), j \in 1..Len(db) : i # j => db[i].name # db[j].name}

\* thresholds in hundredths: exact matches only, the default 0.04, and 0.5
MatchThresholds == {<<0, 100>>, <<4, 100>>, <<50, 100>>}

InitMatch ==
    /\ NoSessions
    /\ splitter = SplitterIdle
    /\ \E chromagram \in Contents, db \in Libraries, threshold \in MatchThresholds :
          fingerprint = [pc |-> "called", chromagram |-> chromagram,
                         reference_db |-> db, threshold |-> threshold]

\* match_against_references(chromagram, reference_db, threshold) returns;
\* `summary` and `distances` keep the query summary and what _dtw_distance
\* returned for each entry
MatchReturn ==
    /\ fingerprint.pc = "called"
    /\ LET summary == SummarizeChromagram(TrimEdges(fingerprint.chromagram), NBins)
       IN  fingerprint' =
               [pc |-> "returned", chromagram |-> fingerprint.chromagram,
                reference_db |-> fingerprint.reference_db,
                threshold |-> fingerprint.threshold,
                summary |-> summary,
                distances |-> [i \in 1..Len(fingerprint.reference_db) |->
                                 DtwDistance(summary, fingerprint.reference_db[i].summary)],
                result |-> MatchAgainstReferences(fingerprint.chromagram,
                                                  fingerprint.reference_db,
                                                  fingerprint.threshold)]
    /\ UNCHANGED <<opsVars, splitter, job, upload>>

NextMatch == MatchReturn

SpecMatch == InitMatch /\ [][NextMatch]_vars

\* ---- compute_chroma_fingerprint ----
\* a file on disk: where it is and what _decode_audio reads from it
AudioFile(path, audio) == [path |-> path, audio |-> audio]

\* np.round(summary, 2): every entry in hundredths
Quantize(summary) ==
    [i \in 1..Len(summary) |->
        [k \in 1..N_CHROMA |-> (200 * summary[i][k] + NORM) \div (2 * NORM)]]

\* hashlib.sha256(raw).hexdigest()[:16]: DIGEST_CHARS hexadecimal characters
\* determined by the bytes hashed
Sha256Hex(raw) == [chars |-> DIGEST_CHARS, of |-> raw]

\* the empty string
EmptyDigest == [chars |-> 0, of |-> <<>>]

\* compute_chroma_fingerprint without its test for an empty chromagram
ComputeChromaFingerprintOfSummary(file) ==
    Sha256Hex(Quantize(SummarizeChromagram(
        TrimEdges(ComputeChromagramForFile(file.audio)), NBins)))

\* compute_chroma_fingerprint
ComputeChromaFingerprint(file) ==
    LET chromagram == ComputeChromagramForFile(file.audio)
    IN  IF Len(chromagram) = 0 THEN EmptyDigest
        ELSE Sha256Hex(Quantize(SummarizeChromagram(TrimEdges(chromagram), NBins)))

\* the calls made: on the first file, on the second, on the first again
CallOrder == <<1, 2, 1>>

InitFingerprint ==
    /\ NoSessions
    /\ splitter = SplitterIdle
    /\ \E a1 \in Audios, a2 \in Audios :
          fingerprint = [pc |-> "fingerprinting",
                         files |-> <<AudioFile("x", a1), AudioFile("y", a2)>>,
                         digests |-> <<>>]

\* one call of compute_chroma_fingerprint returns
FingerprintCall ==
    /\ fingerprint.pc = "fingerprinting"
    /\ Len(fingerprint.digests) < Len(CallOrder)
    /\ fingerprint' =
          [fingerprint EXCEPT
              !.digests = Append(@, ComputeChromaFingerprint(
                              fingerprint.files[CallOrder[Len(fingerprint.digests) + 1]]))]
    /\ UNCHANGED <<opsVars, splitter, job, upload>>

NextFingerprint == FingerprintCall

SpecFingerprint == InitFingerprint /\ [][NextFingerprint]_vars

\* ======================= properties =======================
\* the thread of the one-request-at-a-time specification
Me == op["A"]

Nums(S) == {t.num : t \in S}

\* numbers exactly 1..N, pairwise distinct, in start_sec order
WellNumbered(S) ==
    /\ Nums(S) = 1..Cardinality(S)
    /\ \A a \in S, b \in S : a # b => a.num # b.num
    /\ \A a \in S, b \in S : a.num < b.num => a.s <= b.s
    /\ \A a \in S, b \in S : a.s < b.s => a.num < b.num

Completed == Me.pc = "done" /\ Me.result = "ok"

\* the row of u before the call is still there with number n, its range,
\* tag and notes untouched
KeptAs(u, n) ==
    \E t \in tracks : /\ t.id = u.id /\ t.sess = u.sess /\ t.num = n
                      /\ t.s = u.s /\ t.e = u.e /\ t.tag = u.tag /\ t.notes = u.notes

\* every artifact a row referenced before the call is still stored, unchanged
ArtifactsIntact ==
    \A u \in Me.pre :
        Has(Me.preStore, u.path) =>
            /\ Has(Stored, u.path)
            /\ DataOf(Stored, u.path) = DataOf(Me.preStore, u.path)

\* C1: after every completed merge or split (and in the initial session) the
\* track numbers of each session are exactly 1..N, pairwise distinct, and
\* increasing number order is increasing start_sec order.
C1_NumbersContiguousAfterCompletion ==
    (Me.pc = "done" /\ Me.result \in {"none", "ok"}) =>
        \A sess \in {t.sess : t \in tracks} : WellNumbered(TracksOf(tracks, sess))

\* a completed second call whose renumbering gave an old row a new number
C1_Witness ==
    /\ Completed
    /\ budget = 0
    /\ \E u \in Me.pre : \E t \in tracks : t.id = u.id /\ t.num # u.num

\* C2: no two merge / split calls on the same session are at once between
\* their first read of the track rows and the end of their renumbering.
Running(p) == op[p].pc # "done"

C2_MutualExclusion ==
    \A p \in Procs, q \in Procs :
        (p # q /\ Running(p) /\ Running(q)) => op[p].t1.sess # op[q].t1.sess

\* C3: in every committed state, also in the middle of a merge or split, the
\* numbers get_tracks_for_session lists for a session are exactly 1..N for the
\* N rows listed, none missing and none twice.
C3_ReaderSeesContiguousNumbers ==
    \A sess \in {t.sess : t \in tracks} :
        LET S == TracksOf(tracks, sess)
        IN  /\ Nums(S) = 1..Cardinality(S)
            /\ \A a \in S, b \in S : a # b => a.num # b.num

\* C4: when an export of merge or split fails, the call ends with an error, no
\* row was deleted, inserted or updated and every artifact the rows referenced
\* is still stored with its content.
C4_ExportFailureLeavesStateIntact ==
    (Me.pc = "done" /\ Me.at \in {"m_export", "s_export1", "s_export2"}) =>
        /\ Me.result = "error"
        /\ tracks = Me.pre
        /\ ArtifactsIntact

\* C5: a merge or split that fails at any step leaves the rows and the
\* artifacts they reference as they were before the call.
C5_AllOrNothing ==
    (Me.pc = "done" /\ Me.result = "error") =>
        /\ tracks = Me.pre
        /\ ArtifactsIntact

\* C6: merge(id1, id2) is rejected, without export and without any change of
\* rows or artifacts, whenever an id names no track, the tracks are of different
\* sessions or their numbers do not differ by exactly 1 (id1 = id2 included);
\* it goes on to export only when all three preconditions hold.
MergePrecondition(T, id1, id2) ==
    \E a \in T, b \in T :
        /\ a.id = id1 /\ b.id = id2
        /\ a.sess = b.sess
        /\ (a.num - b.num = 1 \/ b.num - a.num = 1)

C6_MergePreconditions ==
    Me.kind = "merge" =>
        /\ Me.result = "ValueError" =>
              /\ ~MergePrecondition(Me.pre, Me.a1, Me.a2)
              /\ Me.pc = "done" /\ Me.exported = <<>>
              /\ tracks = Me.pre /\ Stored = Me.preStore
        /\ Me.result # "ValueError" =>
              /\ MergePrecondition(Me.pre, Me.t1.id, Me.t2.id)
              /\ Me.t1 \in Me.pre /\ Me.t2 \in Me.pre
        /\ Me.exported # <<>> => Me.result # "ValueError"

\* merge(id, id) of an existing track, rejected
C6_Witness ==
    /\ Me.kind = "merge" /\ Me.result = "ValueError"
    /\ Me.a1 = Me.a2 /\ Me.a1 # NoId
    /\ GetTrack(Me.pre, Me.a1) # {}

\* C7: split(track, offset) is rejected and changes nothing unless
\* 1.0 < offset < duration - 1.0, both strict; so a successful split leaves two
\* tracks each strictly longer than 1 second and a track of 2 seconds or less
\* is never split.
SplitPrecondition(T, id, off) ==
    \E t \in T : /\ t.id = id
                 /\ off > TicksPerSec
                 /\ off < (t.e - t.s) - TicksPerSec

C7_SplitOffsetBounds ==
    Me.kind = "split" =>
        /\ Me.result = "ValueError" =>
              /\ ~SplitPrecondition(Me.pre, Me.a1, Me.a2)
              /\ Me.pc = "done" /\ Me.exported = <<>>
              /\ tracks = Me.pre /\ Stored = Me.preStore
        /\ Me.result # "ValueError" =>
              /\ Me.t1 \in Me.pre /\ Me.t1.id = Me.a1
              /\ SplitPrecondition(Me.pre, Me.a1, Me.a2)
              /\ Me.t1.e - Me.t1.s > 2 * TicksPerSec
        /\ Completed =>
              \E h1 \in tracks, h2 \in tracks :
                  /\ h1.s = Me.t1.s /\ h1.e = h2.s /\ h2.e = Me.t1.e
                  /\ h1.e - h1.s > TicksPerSec
                  /\ h2.e - h2.s > TicksPerSec
                  /\ GetTrack(Me.pre, h1.id) = {} /\ GetTrack(Me.pre, h2.id) = {}

\* a completed split that cut off the shortest piece allowed
C7_Witness ==
    /\ Completed /\ Me.kind = "split"
    /\ Me.a2 = TicksPerSec + 1
    /\ \E h \in tracks : h.s = Me.t1.s /\ h.e - h.s = TicksPerSec + 1

\* the range of u's row is kept and its number is n
KeptRange(u, n) ==
    \E t \in tracks : /\ t.id = u.id /\ t.sess = u.sess /\ t.num = n
                      /\ t.s = u.s /\ t.e = u.e

\* C8: a successful merge of the tracks numbered k and k+1 of N yields N-1
\* tracks; the merged track has number k and range [start of k, end of k+1];
\* tracks below k keep number and range; tracks j > k+1 keep their range and
\* get number j-1.
C8_MergeResult ==
    (Completed /\ Me.kind = "merge") =>
        LET k == Me.t1.num
            P == TracksOf(Me.pre, Me.t1.sess)
            S == TracksOf(tracks, Me.t1.sess)
        IN  /\ Me.t2.num = k + 1
            /\ Cardinality(S) = Cardinality(P) - 1
            /\ \E m \in S : /\ m.num = k /\ m.s = Me.t1.s /\ m.e = Me.t2.e
                            /\ GetTrack(Me.pre, m.id) = {}
            /\ GetTrack(tracks, Me.t1.id) = {} /\ GetTrack(tracks, Me.t2.id) = {}
            /\ \A u \in P : u.num < k => KeptRange(u, u.num)
            /\ \A u \in P : u.num > k + 1 => KeptRange(u, u.num - 1)

\* a completed merge with a track below and a track above the merged pair
C8_Witness ==
    /\ Completed /\ Me.kind = "merge"
    /\ \E u \in TracksOf(Me.pre, Me.t1.sess) : u.num < Me.t1.num
    /\ \E u \in TracksOf(Me.pre, Me.t1.sess) : u.num > Me.t1.num + 1

\* C9: a successful split of track k = [s, e] of N at offset d yields N+1
\* tracks; number k is [s, s+d] and number k+1 is [s+d, e]; tracks below k are
\* unchanged; tracks j > k keep their range and get number j+1.
C9_SplitResult ==
    (Completed /\ Me.kind = "split") =>
        LET k == Me.t1.num
            cut == Me.t1.s + Me.a2
            P == TracksOf(Me.pre, Me.t1.sess)
            S == TracksOf(tracks, Me.t1.sess)
        IN  /\ Cardinality(S) = Cardinality(P) + 1
            /\ \E h \in S : h.num = k /\ h.s = Me.t1.s /\ h.e = cut
            /\ \E h \in S : h.num = k + 1 /\ h.s = cut /\ h.e = Me.t1.e
            /\ \A u \in P : u.num < k => KeptAs(u, u.num)
            /\ \A u \in P : u.num > k => KeptRange(u, u.num + 1)

\* C10: the merged track carries the tag and notes of the earlier,
\* lower-numbered track and nothing of the later one; an untagged or noteless
\* earlier track gives an untagged or noteless merged track.
C10_MergeKeepsEarlierMetadata ==
    (Completed /\ Me.kind = "merge") =>
        /\ Me.t1.num < Me.t2.num
        /\ \E m \in TracksOf(tracks, Me.t1.sess) :
              /\ GetTrack(Me.pre, m.id) = {}
              /\ m.tag = Me.t1.tag
              /\ m.notes = Me.t1.notes
        /\ \A m \in tracks :
              GetTrack(Me.pre, m.id) = {} => (m.tag = Me.t1.tag /\ m.notes = Me.t1.notes)

\* a completed merge of an untagged, noteless track with a tagged one with notes
C10_Witness ==
    /\ Completed /\ Me.kind = "merge"
    /\ Me.t1.tag = NoTag /\ Me.t1.notes = ""
    /\ Me.t2.tag # NoTag /\ Me.t2.notes # ""

\* C11: after a split the first half carries the original track's tag and
\* notes, and the second half has no tag and empty notes.
C11_SplitMetadata ==
    (Completed /\ Me.kind = "split") =>
        LET cut == Me.t1.s + Me.a2
            New == {t \in tracks : GetTrack(Me.pre, t.id) = {}}
        IN  /\ Cardinality(New) = 2
            /\ \E h1 \in New, h2 \in New :
                  /\ h1.s = Me.t1.s /\ h1.e = cut
                  /\ h1.tag = Me.t1.tag /\ h1.notes = Me.t1.notes
                  /\ h2.s = cut /\ h2.e = Me.t1.e
                  /\ h2.tag = NoTag /\ h2.notes = ""

\* a completed split of a tagged track that has notes
C11_Witness ==
    /\ Completed /\ Me.kind = "split"
    /\ Me.t1.tag # NoTag /\ Me.t1.notes # ""

\* ---- detect_songs ----
Segments == splitter.result.segments

\* C12: the segments detect_songs returns are in ascending start order and
\* pairwise non-overlapping after padding: each end_sec is at most the next
\* start_sec.
C12_SegmentsOrderedDisjoint ==
    splitter.pc = "returned" =>
        \A i \in 1..(Len(Segments) - 1) :
            /\ Segments[i][1] <= Segments[i + 1][1]
            /\ Segments[i][2] <= Segments[i + 1][1]

\* C13: every segment detect_songs returns has 0 <= start_sec < end_sec <=
\* total_duration, and total_duration is the number of complete windows.
C13_SegmentsWithinRecording ==
    splitter.pc = "returned" =>
        /\ splitter.result.total_duration_sec = Len(splitter.file.levels) * WINDOW_SEC
        /\ \A i \in 1..Len(Segments) :
              /\ 0 <= Segments[i][1]
              /\ Segments[i][1] < Segments[i][2]
              /\ Segments[i][2] <= splitter.result.total_duration_sec

\* two segments from a recording with a trailing partial window, the padding
\* of the first clamped at 0 and of the last at the end of the recording
C13_Witness ==
    /\ splitter.pc = "returned"
    /\ splitter.file.partial
    /\ Len(Segments) = 2
    /\ Segments[1][1] = 0
    /\ Segments[2][2] = splitter.result.total_duration_sec

\* C14: detect_songs returns no segment for a recording with no complete
\* window and for a recording whose windows are all silent (-100 dB), whatever
\* threshold and min-duration are passed.
C14_SilenceGivesNoSegments ==
    (/\ splitter.pc = "returned"
     /\ \A i \in 1..Len(splitter.file.levels) : splitter.file.levels[i] = SILENT_DB)
        => Segments = <<>>

\* ---- _dtw_distance, match_against_references ----
\* the least of the distances _dtw_distance returned for the library entries
MinDistance ==
    CHOOSE d \in {fingerprint.distances[i] : i \in DOMAIN fingerprint.distances} :
        \A i \in DOMAIN fingerprint.distances : Leq(d, fingerprint.distances[i])

\* C15: the DTW distance of a non-empty chroma summary (rows unit-normalized
\* or all-zero) against itself is zero: whenever a library entry's summary is
\* the query's summary, the distance computed for that entry is 0.
C15_SelfDistanceZero ==
    fingerprint.pc = "returned" =>
        \A i \in DOMAIN fingerprint.distances :
            fingerprint.reference_db[i].summary = fingerprint.summary
                => fingerprint.distances[i][1] = 0

\* C16: match_against_references returns a match if and only if the library
\* is non-empty and the least DTW distance between the query summary and the
\* entries is at most the threshold; the name returned is an entry attaining
\* that least distance, the distance returned is that least distance and
\* similarity = 1 - distance.
C16_MatchIffMinWithinThreshold ==
    fingerprint.pc = "returned" =>
        IF Len(fingerprint.reference_db) > 0 /\ Leq(MinDistance, fingerprint.threshold)
        THEN /\ fingerprint.result.matched
             /\ \E i \in DOMAIN fingerprint.distances :
                   /\ fingerprint.reference_db[i].name = fingerprint.result.name
                   /\ fingerprint.distances[i] = MinDistance
             /\ fingerprint.result.distance = MinDistance
             /\ fingerprint.result.similarity[1] * MinDistance[2] =
                    (MinDistance[2] - MinDistance[1]) * fingerprint.result.similarity[2]
        ELSE ~fingerprint.result.matched

\* C17: an empty query chromagram (zero frames) against any library, and any
\* query against an empty library, give no match for every threshold.
C17_EmptyGivesNoMatch ==
    (/\ fingerprint.pc = "returned"
     /\ \/ Len(fingerprint.chromagram) = 0
        \/ Len(fingerprint.reference_db) = 0)
        => ~fingerprint.result.matched

C19_ExportsReadTheSource ==
    \A p \in Procs :
        /\ \A i \in 1..Len(op[p].exported) :
              /\ op[p].exported[i].from = SourceFile(op[p].t1.sess)
              /\ \A u \in op[p].pre : op[p].exported[i].from # u.path
              /\ \A j \in 1..(i - 1) : op[p].exported[i].from # op[p].exported[j].path
        /\ (op[p].kind = "merge" /\ Len(op[p].exported) >= 1) =>
              /\ Len(op[p].exported) = 1
              /\ op[p].exported[1].lo = op[p].t1.s
              /\ op[p].exported[1].hi = op[p].t2.e
        /\ (op[p].kind = "split" /\ Len(op[p].exported) >= 1) =>
              /\ op[p].exported[1].lo = op[p].t1.s
              /\ op[p].exported[1].hi = op[p].t1.s + op[p].a2
        /\ (op[p].kind = "split" /\ Len(op[p].exported) >= 2) =>
              /\ Len(op[p].exported) = 2
              /\ op[p].exported[2].lo = op[p].t1.s + op[p].a2
              /\ op[p].exported[2].hi = op[p].t1.e

\* a completed split of a track that an earlier merge or split had exported
C19_Witness ==
    /\ Completed
    /\ Me.kind = "split"
    /\ Len(Me.exported) = 2
    /\ \A layout \in Layouts : Me.t1.id > Len(layout) + 1

\* ---- operations on different sessions ----
\* the artifacts stored in the output directory of a session
ArtifactsIn(store, sess) == {f \in store : f.path[1] = sess}

\* C20: a merge or split on one session never changes a track row or an
\* artifact of another session (so that operations on different sessions
\* commute, in either order or interleaved): a step of a call leaves the rows
\* of every session but its own, and the artifacts in their directories, as
\* they are.
C20_OtherSessionsUntouched ==
    [][\A p \in Procs :
          op'[p] # op[p] =>
              \A sess \in {t.sess : t \in tracks \cup tracks'} \ {op'[p].t1.sess} :
                  /\ TracksOf(tracks', sess) = TracksOf(tracks, sess)
                  /\ ArtifactsIn(disk', sess) = ArtifactsIn(disk, sess)
                  /\ ArtifactsIn(bucket', sess) = ArtifactsIn(bucket, sess)]_vars

\* ---- what merge and split leave behind ----
\* the rows that were not there before the call
CreatedRows == {t \in tracks : GetTrack(Me.pre, t.id) = {}}

\* C21: after a successful merge the two original rows are gone and the
\* artifacts they referenced are no longer stored; after a successful split
\* the original row and its artifact are gone; the only rows created are the
\* merged track (merge) or the two halves (split).
C21_OldRowsAndArtifactsGone ==
    /\ (Completed /\ Me.kind = "merge") =>
          /\ GetTrack(tracks, Me.t1.id) = {} /\ GetTrack(tracks, Me.t2.id) = {}
          /\ ~Has(Stored, Me.t1.path) /\ ~Has(Stored, Me.t2.path)
          /\ Cardinality(CreatedRows) = 1
    /\ (Completed /\ Me.kind = "split") =>
          /\ GetTrack(tracks, Me.t1.id) = {}
          /\ ~Has(Stored, Me.t1.path)
          /\ Cardinality(CreatedRows) = 2

\* ---- the order of merge's arguments ----
\* what merge_tracks works on once its checks are done: the error, or the
\* earlier and the later track
MergeNormalized(T, id1, id2) ==
    IF MergeError(T, id1, id2) # "" THEN <<MergeError(T, id1, id2)>>
    ELSE <<MergeFirst(TheTrack(T, id1), TheTrack(T, id2)),
           MergeSecond(TheTrack(T, id1), TheTrack(T, id2))>>

\* C22: merge does not depend on the order of its arguments: in every state
\* in which a request is taken, for every pair of tracks,
\* merge(id1, id2) and merge(id2, id1) are rejected alike or go on with the
\* same earlier and later track, and a completed merge called with the
\* higher-numbered track first took the lower-numbered one as the earlier:
\* the merged track has its number, its start, its tag and notes, and the
\* other's end.
C22_MergeArgumentOrder ==
    /\ CanCall("A") =>
          \A id1 \in Ids, id2 \in Ids :
              MergeNormalized(tracks, id1, id2) = MergeNormalized(tracks, id2, id1)
    /\ (Completed /\ Me.kind = "merge") =>
          /\ {Me.t1.id, Me.t2.id} = {Me.a1, Me.a2}
          /\ Me.t1.num < Me.t2.num
          /\ \E m \in CreatedRows :
                /\ m.s = Me.t1.s /\ m.e = Me.t2.e
                /\ m.tag = Me.t1.tag /\ m.notes = Me.t1.notes
                /\ \A u \in Me.pre : (u.sess = m.sess /\ u.num < Me.t1.num) =>
                      \E t \in tracks : t.id = u.id /\ t.num < m.num

\* a completed merge that was called with the higher-numbered track first
C22_Witness ==
    /\ Completed /\ Me.kind = "merge"
    /\ Me.a1 = Me.t2.id /\ Me.a2 = Me.t1.id
    /\ Me.t1.tag # Me.t2.tag

\* ---- split, then merge the halves ----
\* a row as the track list shows it, without row id and artifact name
Shown(t) == [sess |-> t.sess, num |-> t.num, s |-> t.s, e |-> t.e,
             tag |-> t.tag, notes |-> t.notes]

ShownRows(T, sess) == {Shown(t) : t \in TracksOf(T, sess)}

\* the rows the previous request created
HalvesOfLastSplit == {t \in Me.pre : GetTrack(Me.last.pre, t.id) = {}}

\* the request is a merge of the two halves of the split completed just before
MergeOfTheHalves ==
    /\ Me.kind = "merge" /\ Me.pc = "done"
    /\ Me.last.kind = "split" /\ Me.last.result = "ok"
    /\ Me.a1 # Me.a2
    /\ {Me.a1, Me.a2} = {t.id : t \in HalvesOfLastSplit}

\* C23: splitting a track at a valid offset and then merging the two halves
\* restores the track list of the session: the merge is accepted, and when it
\* completes there are as many tracks as before the split, each with the
\* track_number, start_sec, end_sec, tag and notes it had.
C23_SplitThenMergeRestores ==
    MergeOfTheHalves =>
        /\ Me.result # "ValueError"
        /\ Me.result = "ok" =>
              \A sess \in {t.sess : t \in Me.last.pre} :
                  ShownRows(tracks, sess) = ShownRows(Me.last.pre, sess)

\* ---- _renumber_tracks ----
\* the thread is inside _renumber_tracks
Renumbering == Me.pc \in {"r_read", "r_rename", "r_update"}

\* the row the loop of _renumber_tracks is at, as it was read
LoopRow == Me.rlist[Me.ri]

\* C24: renumbering changes only track_number and audio_path, and only of
\* tracks whose number differs from their rank by start_sec: no step of it adds
\* or removes a row or changes a start_sec, end_sec, tag or notes; a row gets
\* its new number and its new path in one and the same update; and the only
\* artifact renamed is that of a track whose number was wrong.
C24_RenumberFrame ==
    [][Renumbering =>
          /\ {t.id : t \in tracks'} = {t.id : t \in tracks}
          /\ \A t \in tracks :
                LET u == TheTrack(tracks', t.id)
                IN  /\ u.sess = t.sess /\ u.s = t.s /\ u.e = t.e
                    /\ u.tag = t.tag /\ u.notes = t.notes
                    /\ u # t =>
                          /\ Me.pc = "r_update"
                          /\ t.id = LoopRow.id
                          /\ t.num # Me.ri
                          /\ u.num = Me.ri
                          /\ u.path = RenumberName(Me.rlist, Me.ri)
          /\ (disk' # disk \/ bucket' # bucket) =>
                /\ Me.pc = "r_rename"
                /\ LoopRow.num # Me.ri
                /\ \A f \in Stored : ~Has(Stored', f.path) => f.path = LoopRow.path
                /\ \A i \in 1..Len(Me.rlist) :
                      (Me.rlist[i].num = i /\ Has(Stored, Me.rlist[i].path))
                          => Has(Stored', Me.rlist[i].path)]_vars

\* ---- detect_songs: runs and segments ----
\* the smoothed loudness profile of the analysed recording, as <<sum, count>>
Smoothed == SmoothProfile(ComputeRmsProfile(splitter.file), SMOOTHING_WINDOW_SEC)

\* the number of windows of the profile; smoothing keeps it
Windows == Len(ComputeRmsProfile(splitter.file))

\* window i (1-based) has a smoothed loudness of at least the threshold passed
Loud(i) == Smoothed[i][1] >= splitter.energy_threshold_db * Smoothed[i][2]

\* the 0-based windows at which a run of loud windows begins
RunStarts ==
    { a \in 0..(Windows - 1) : Loud(a + 1) /\ (a = 0 \/ ~Loud(a)) }

\* the half-open end of the run that begins at a: the first quiet window
\* after a, or the end of the profile for a run that reaches the last window
RunEnd(a) ==
    CHOOSE b \in (a + 1)..Windows :
        /\ \A i \in (a + 1)..b : Loud(i)
        /\ b = Windows \/ ~Loud(b + 1)

\* the maximal runs of consecutive loud windows, 0-based and half-open
MaximalRuns == { <<a, RunEnd(a)>> : a \in RunStarts }

\* the maximal runs that last at least min_song_duration_sec
LongRuns ==
    { r \in MaximalRuns : (r[2] - r[1]) * WINDOW_SEC >= splitter.min_song_duration_sec }

\* the i-th run of R in the order of the recording
NthRun(R, i) ==
    CHOOSE r \in R : Cardinality({q \in R : q[1] < r[1]}) = i - 1

\* C25: detect_songs returns exactly one segment per maximal run of
\* consecutive windows whose smoothed loudness is at least the threshold and
\* whose length is at least min_song_duration_sec, in the order of the runs, a
\* run still open at the last window included; shorter runs give no segment.
C25_OneSegmentPerLongRun ==
    splitter.pc = "returned" =>
        LET runs == LongRuns
        IN  /\ Len(Segments) = Cardinality(runs)
            /\ \A i \in 1..Len(Segments) :
                  LET r == NthRun(runs, i)
                  IN  Segments[i] = PadSegment(r[1], r[2],
                                               splitter.result.total_duration_sec)

\* a recording with a run too short to count, a run exactly as long as
\* min_song_duration_sec at the threshold, still open at the last window
C25_Witness ==
    /\ splitter.pc = "returned"
    /\ Len(Segments) = 1
    /\ Cardinality(MaximalRuns) = 2
    /\ \E r \in LongRuns :
          /\ r[2] = Windows
          /\ (r[2] - r[1]) * WINDOW_SEC = splitter.min_song_duration_sec
          /\ \A i \in (r[1] + 1)..r[2] :
                Smoothed[i][1] = splitter.energy_threshold_db * Smoothed[i][2]

\* ---- match_against_references: ties ----
\* the library entries at the least distance, by position
AtMinimum == {i \in DOMAIN fingerprint.distances : fingerprint.distances[i] = MinDistance}

\* the first of them in the iteration order of the library
FirstAtMinimum == CHOOSE i \in AtMinimum : \A j \in AtMinimum : i <= j

\* C26: when several library entries tie at the least DTW distance (and that
\* distance is within the threshold), match_against_references returns the
\* one met first in the iteration order of the library.
C26_TieGoesToFirst ==
    (/\ fingerprint.pc = "returned"
     /\ Len(fingerprint.reference_db) > 0
     /\ Cardinality(AtMinimum) > 1
     /\ Leq(MinDistance, fingerprint.threshold))
        => /\ fingerprint.result.matched
           /\ fingerprint.result.name = fingerprint.reference_db[FirstAtMinimum].name

\* ---- _summarize_chromagram with its default n_bins ----
SUMMARY_BINS == 32
\* longest passage on each side of the silence in the chromagrams summarised
MaxSide == 34

\* chromagrams of 0 to 2 * MaxSide + MaxFrames frames: a chord, a stretch of
\* silence, the chord again
SummarizeInputs ==
    { Repeat(r, a) \o Repeat(ZeroRow, z) \o Repeat(r, b) :
        a \in 0..MaxSide, z \in 0..MaxFrames, b \in 0..MaxSide,
        r \in {Row(NORM, 0), Row(3, 4)} }

InitSummarize ==
    /\ NoSessions
    /\ splitter = SplitterIdle
    /\ \E chromagram \in SummarizeInputs :
          fingerprint = [pc |-> "summarizing", chromagram |-> chromagram]

\* _summarize_chromagram(chromagram) returns; `bins` keeps the <<start, end>>
\* of every pass of its loop over range(n_bins)
SummarizeReturn ==
    /\ fingerprint.pc = "summarizing"
    /\ LET n == Len(fingerprint.chromagram)
           nFrames == IF n < SUMMARY_BINS THEN SUMMARY_BINS ELSE n
       IN  fingerprint' =
               [pc |-> "summarized", chromagram |-> fingerprint.chromagram,
                summary |-> SummarizeChromagram(fingerprint.chromagram, SUMMARY_BINS),
                bins |-> IF n = 0 THEN <<>>
                         ELSE [i \in 1..SUMMARY_BINS |->
                                 BinBounds(i, nFrames, SUMMARY_BINS)]]
    /\ UNCHANGED <<opsVars, splitter, job, upload>>

NextSummarize == SummarizeReturn

SpecSummarize == InitSummarize /\ [][NextSummarize]_vars

\* C27: _summarize_chromagram returns exactly 32 rows for every input length:
\* 32 zero rows for zero frames; for 1 to 31 frames the frames followed by
\* repetitions of the last frame; for n >= 32 frames bin i (0-based) is the
\* normalised average of the frames in [floor(i*n/32), floor((i+1)*n/32)), and
\* these bins are non-empty, contiguous and disjoint and cover every frame
\* exactly once.
C27_SummaryBins ==
    fingerprint.pc = "summarized" =>
        LET c == fingerprint.chromagram
            n == Len(c)
            S == fingerprint.summary
            B == fingerprint.bins
        IN  /\ Len(S) = 32
            /\ n = 0 => \A i \in 1..32 : S[i] = ZeroRow
            /\ (1 <= n /\ n < 32) =>
                  \A i \in 1..32 : S[i] = c[IF i <= n THEN i ELSE n]
            /\ n >= 32 =>
                  /\ \A i \in 1..32 :
                        /\ B[i] = <<((i - 1) * n) \div 32, (i * n) \div 32>>
                        /\ B[i][1] < B[i][2]
                        /\ \A f \in B[i][1]..(B[i][2] - 1) :
                              c[f + 1] # ZeroRow => S[i] = c[f + 1]
                        /\ (\A f \in B[i][1]..(B[i][2] - 1) : c[f + 1] = ZeroRow)
                              => S[i] = ZeroRow
                  /\ \A i \in 1..31 : B[i][2] = B[i + 1][1]
                  /\ \A f \in 0..(n - 1) :
                        Cardinality({i \in 1..32 : B[i][1] <= f /\ f < B[i][2]}) = 1

\* a chromagram of more than 32 frames, not a multiple of 32, with silence in
\* it, summarised into bins of two different sizes
C27_Witness ==
    /\ fingerprint.pc = "summarized"
    /\ Len(fingerprint.chromagram) > 32
    /\ Len(fingerprint.chromagram) % 32 # 0
    /\ \E i \in 1..32 : fingerprint.summary[i] = ZeroRow
    /\ \E i, j \in 1..32 :
          fingerprint.bins[i][2] - fingerprint.bins[i][1]
              # fingerprint.bins[j][2] - fingerprint.bins[j][1]

\* ======================= api.py: _process_upload =======================
\* jobs.error of a job that has not failed (NULL)
NoError == "None"

\* the session the upload created and the number of its job
UploadSession == 1

\* where a presigned upload left the recording in the bucket, and
\* new_source_rel, where the pipeline keeps it
UploadKey == <<"uploads", UploadSession>>
RecordingKey == <<"recordings", UploadSession>>

\* the decoded content of the uploaded recording
RecordingData == <<UploadSession, "recording">>

\* db.create_job: status 'pending', no progress, no error
CreateJob(sessionId) ==
    [status |-> "pending", progress |-> "", session_id |-> sessionId, error |-> NoError]

\* db.update_job_progress
UpdateJobProgress(j, progress) ==
    [j EXCEPT !.status = "processing", !.progress = progress]

\* db.complete_job
CompleteJob(j, sessionId) ==
    [j EXCEPT !.status = "completed", !.session_id = sessionId]

\* mutant of FailJob: the error is stored, the status is left as it was
FailJobErrorOnly(j, error) == [j EXCEPT !.error = error]

\* db.fail_job
FailJob(j, error) == [j EXCEPT !.status = "failed", !.error = error]

\* meta.duration_seconds of the uploaded file, in ticks: unknown (0) or 8 s
Durations == {0, 8 * TicksPerSec}

\* what detect_songs finds in the recording: nothing, one song, two songs
\* whose padding overlaps
DetectResults ==
    { <<>>,
      << <<0, 4 * TicksPerSec>> >>,
      << <<0, 4 * TicksPerSec>>, <<3 * TicksPerSec, 8 * TicksPerSec>> >> }

\* the path export_segments gives segment i of segs, with its fingerprint
ExportedPath(segs, i) ==
    GenerateOutputName(UploadSession, i, Len(segs), segs[i][1], segs[i][2], "fp")

\* the arguments of a run and what its collaborators will answer
InitUpload ==
    /\ tracks = {} /\ nextId = 1
    /\ op = [p \in Procs |-> Idle] /\ budget = 0 /\ faults = 0
    /\ splitter = SplitterIdle /\ fingerprint = FingerprintIdle
    /\ job = CreateJob(UploadSession)
    /\ \E remote \in BOOLEAN, presigned \in BOOLEAN, force \in BOOLEAN,
          single \in BOOLEAN, dup \in BOOLEAN,
          duration \in Durations, found \in DetectResults :
          /\ presigned => remote
          /\ isRemote = remote
          /\ disk = IF presigned THEN {}
                    ELSE {[path |-> SourceFile(UploadSession), data |-> RecordingData]}
          /\ bucket = IF presigned THEN {[path |-> UploadKey, data |-> RecordingData]}
                      ELSE {}
          /\ upload = [pc |-> "download", r2_key |-> presigned, force |-> force,
                       single |-> single, dup |-> dup, duration |-> duration,
                       found |-> found, segments |-> <<>>, i |-> 0,
                       session |-> TRUE, source_file |-> SourceFile(UploadSession),
                       raised |-> "none", writes |-> 0]

\* a step of the try block raises: control goes to the except clause
Raise(message) == upload' = [upload EXCEPT !.pc = "except", !.raised = message]

UGoto(pc) == upload' = [upload EXCEPT !.pc = pc]

\* if r2_key: update_job_progress, storage.get(r2_key, source)
UDownload ==
    /\ upload.pc = "download"
    /\ IF upload.r2_key
       THEN /\ job' = UpdateJobProgress(job, "Downloading from storage...")
            /\ \/ /\ Has(bucket, UploadKey)
                  /\ disk' = Put(disk, SourceFile(UploadSession), DataOf(bucket, UploadKey))
                  /\ UGoto("analyze")
               \/ /\ Raise("download failed")
                  /\ UNCHANGED disk
       ELSE /\ UGoto("analyze")
            /\ UNCHANGED <<job, disk>>
    /\ UNCHANGED <<tracks, nextId, bucket, isRemote, op, budget, faults,
                   splitter, fingerprint>>

\* update_job_progress, extract_metadata(source), update_session_duration
UAnalyze ==
    /\ upload.pc = "analyze"
    /\ job' = UpdateJobProgress(job, "Analyzing audio...")
    /\ \/ UGoto("duplicate")
       \/ Raise("ffmpeg not found")
    /\ UNCHANGED <<opsVars, splitter, fingerprint>>

\* the duplicate test of a presigned upload: storage.delete(r2_key),
\* delete_session, fail_job and return
UDuplicate ==
    /\ upload.pc = "duplicate"
    /\ IF upload.r2_key /\ ~upload.force /\ upload.duration # 0 /\ upload.dup
       THEN /\ bucket' = Del(bucket, UploadKey)
            /\ job' = FailJob(job, "Possible duplicate")
            /\ upload' = [upload EXCEPT !.pc = "done", !.session = FALSE,
                                        !.writes = @ + 1]
       ELSE /\ UGoto("source")
            /\ UNCHANGED <<job, bucket>>
    /\ UNCHANGED <<tracks, nextId, disk, isRemote, op, budget, faults,
                   splitter, fingerprint>>

\* the full recording goes to new_source_rel: storage.put for a direct upload
\* to remote storage, storage.rename for a presigned one
USource ==
    /\ upload.pc = "source"
    /\ IF isRemote /\ ~upload.r2_key
       THEN /\ job' = UpdateJobProgress(job, "Uploading recording...")
            /\ \/ /\ bucket' = Put(bucket, RecordingKey,
                                   DataOf(disk, SourceFile(UploadSession)))
                  /\ upload' = [upload EXCEPT !.pc = "detect",
                                              !.source_file = RecordingKey]
               \/ /\ Raise("upload failed")
                  /\ UNCHANGED bucket
       ELSE IF upload.r2_key
       THEN /\ UNCHANGED job
            /\ \/ /\ Has(bucket, UploadKey)
                  /\ bucket' = BucketRename(bucket, UploadKey, RecordingKey)
                  /\ upload' = [upload EXCEPT !.pc = "detect",
                                              !.source_file = RecordingKey]
               \/ /\ Raise("rename failed")
                  /\ UNCHANGED bucket
       ELSE /\ UGoto("detect")
            /\ UNCHANGED <<job, bucket>>
    /\ UNCHANGED <<tracks, nextId, disk, isRemote, op, budget, faults,
                   splitter, fingerprint>>

\* segments: the whole file for a single-song upload, else detect_songs
UDetect ==
    /\ upload.pc = "detect"
    /\ IF upload.single
       THEN /\ upload' = [upload EXCEPT !.pc = "export",
                                        !.segments = << <<0, upload.duration>> >>]
            /\ UNCHANGED job
       ELSE /\ job' = UpdateJobProgress(job, "Detecting songs...")
            /\ \/ upload' = [upload EXCEPT
                                !.pc = IF upload.found = <<>> THEN "complete"
                                       ELSE "export",
                                !.segments = upload.found]
               \/ Raise("detect_songs failed")
    /\ UNCHANGED <<opsVars, splitter, fingerprint>>

\* update_job_progress, cfg.output_dir_for_session, export_segments
UExport ==
    /\ upload.pc = "export"
    /\ job' = UpdateJobProgress(job, "Exporting tracks...")
    /\ \/ /\ disk' = {f \in disk :
                         \A i \in 1..Len(upload.segments) :
                             f.path # ExportedPath(upload.segments, i)}
                     \cup {[path |-> ExportedPath(upload.segments, i),
                            data |-> <<UploadSession, upload.segments[i][1],
                                       upload.segments[i][2]>>] :
                             i \in 1..Len(upload.segments)}
          /\ upload' = [upload EXCEPT !.pc = "save", !.i = 1]
       \/ /\ Raise("export failed")
          /\ UNCHANGED disk
    /\ UNCHANGED <<tracks, nextId, bucket, isRemote, op, budget, faults,
                   splitter, fingerprint>>

\* one pass of the loop over the exported tracks: update_job_progress,
\* create_track, storage.put on remote storage
USave ==
    /\ upload.pc = "save"
    /\ LET i == upload.i
           path == ExportedPath(upload.segments, i)
       IN  /\ job' = UpdateJobProgress(job, <<"Saving track", i, Len(upload.segments)>>)
           /\ tracks' = CreateTrack(tracks, nextId, UploadSession, i,
                                    upload.segments[i][1], upload.segments[i][2], path)
           /\ nextId' = nextId + 1
           /\ \/ /\ bucket' = IF isRemote THEN Put(bucket, path, DataOf(disk, path))
                              ELSE bucket
                 /\ upload' = [upload EXCEPT
                                  !.pc = IF i = Len(upload.segments) THEN "cleanup"
                                         ELSE "save",
                                  !.i = i + 1]
              \/ /\ isRemote
                 /\ Raise("upload failed")
                 /\ UNCHANGED bucket
    /\ UNCHANGED <<disk, isRemote, op, budget, faults, splitter, fingerprint>>

\* on remote storage the local copies of the tracks and of the recording go
UCleanup ==
    /\ upload.pc = "cleanup"
    /\ disk' = IF isRemote THEN {} ELSE disk
    /\ UGoto("complete")
    /\ UNCHANGED <<tracks, nextId, bucket, isRemote, op, budget, faults,
                   splitter, fingerprint, job>>

\* db.complete_job(job_id, session_id), the last statement of the try block
UComplete ==
    /\ upload.pc = "complete"
    /\ job' = CompleteJob(job, UploadSession)
    /\ upload' = [upload EXCEPT !.pc = "done", !.writes = @ + 1]
    /\ UNCHANGED <<opsVars, splitter, fingerprint>>

\* except Exception as e: db.fail_job(job_id, str(e))
UExcept ==
    /\ upload.pc = "except"
    /\ job' = FailJob(job, upload.raised)
    /\ upload' = [upload EXCEPT !.pc = "done", !.writes = @ + 1]
    /\ UNCHANGED <<opsVars, splitter, fingerprint>>

NextUpload ==
    \/ UDownload \/ UAnalyze \/ UDuplicate \/ USource \/ UDetect
    \/ UExport \/ USave \/ UCleanup \/ UComplete \/ UExcept

SpecUpload == InitUpload /\ [][NextUpload]_vars

Sound(T) ==
    /\ \A t \in T : t.s < t.e
    /\ \A a \in T, b \in T :
          (a.sess = b.sess /\ a.id # b.id) => (a.e <= b.s \/ b.e <= a.s)

Sessions(T) == {t.sess : t \in T}
EarliestStart(T, sess) ==
    CHOOSE x \in {t.s : t \in TracksOf(T, sess)} : \A t \in TracksOf(T, sess) : x <= t.s
LatestEnd(T, sess) ==
    CHOOSE x \in {t.e : t \in TracksOf(T, sess)} : \A t \in TracksOf(T, sess) : t.e <= x

Canonical(t, T) ==
    \E sfx \in {"", "fp"} :
        t.path = GenerateOutputName(t.sess, t.num, Cardinality(TracksOf(T, t.sess)),
                                    t.s, t.e, sfx)

\* every row of T names an artifact of F that holds the row's own range of
\* the recording, and no two rows name the same artifact
OwnArtifacts(T, F) ==
    /\ \A t \in T : Has(F, t.path) /\ DataOf(F, t.path) = <<t.sess, t.s, t.e>>
    /\ \A a \in T, b \in T : a.id # b.id => a.path # b.path

\* the session a call starts from: canonical names of existing artifacts,
\* pairwise distinct, tracks that do not overlap and are longer than 1 second
CleanSession(T, F) ==
    /\ Sound(T)
    /\ \A t \in T : Canonical(t, T) /\ Duration(t) > TicksPerSec
    /\ OwnArtifacts(T, F)

\* C30: from a session in which every audio_path is a canonical name of an
\* existing artifact, the paths are pairwise distinct and the tracks do not
\* overlap and are longer than 1 second, a successful merge or split leaves
\* every row naming an existing artifact, no two rows sharing an audio_path,
\* and no artifact of another track overwritten: each row's artifact holds
\* the row's own range.
C30_PathsNameOwnArtifacts ==
    (Completed /\ CleanSession(Me.pre, Me.preStore)) => OwnArtifacts(tracks, Stored)

\* a successful split, in the bucket, of a clean session: the later tracks were
\* renamed by the renumbering
C30_Witness ==
    /\ Completed
    /\ CleanSession(Me.pre, Me.preStore)
    /\ Me.kind = "split"
    /\ isRemote
    /\ \E u \in Me.pre : \E t \in tracks : t.id = u.id /\ t.path # u.path

====
